---- MODULE Spec2Model ----
(***************************************************************************)
(* A model of the two LaMetric clients of python-demetriek:                *)
(* LaMetricDevice (src/src/demetriek/device.py) and LaMetricCloud          *)
(* (src/src/demetriek/cloud.py).                                           *)
(*                                                                         *)
(* Scheduling is asyncio's: a coroutine runs without interruption from one *)
(* suspension point to the next.  _request suspends while the transport    *)
(* works on an attempt (pc = "flight") and while the backoff decorator     *)
(* sleeps between two attempts (pc = "backoff"); everything between two    *)
(* suspensions is one action.                                              *)
(***************************************************************************)
EXTENDS Integers, Sequences, FiniteSets, TLC

VARIABLES
    kind,           \* which client this is: "device" or "cloud"
    supplied,       \* TRUE iff the caller passed session= to the constructor
    session,        \* self.session: 0 is None, CallerSession the caller's, 2.. created here
    close_session,  \* self._close_session
    created,        \* how many aiohttp.ClientSession() objects the client has constructed
    closed,         \* the sessions on which close() has been awaited
    scope,          \* "out", "in" (inside `async with client`), "left"
    exc_info,       \* what __aexit__ was handed: "None" or "raised" ("unset" before)
    env,            \* the outcomes the transport can produce for one attempt
    task            \* one record per caller task

vars == <<kind, supplied, session, close_session, created, closed, scope, exc_info, env, task>>

-----------------------------------------------------------------------------
(* Bounds *)

\* Public calls one caller task makes, one after the other.
MaxCalls == 2

\* The longest notification queue the device answers with.
MaxQueue == 2

\* The most frames a caller puts into one notification model.
MaxFrames == 2

-----------------------------------------------------------------------------
(* Program constants *)

\* backoff.on_exception(..., max_tries=3)
MaxTries == 3

CallerSession == 1

AuthStatuses == {401, 403}

-----------------------------------------------------------------------------
(* exceptions.py: the error taxonomy *)

\* The direct base class of every exception class the model raises.
Base(cls) ==
    CASE cls = "LaMetricConnectionTimeoutError" -> "LaMetricConnectionError"
      [] cls = "LaMetricConnectionError"        -> "LaMetricError"
      [] cls = "LaMetricAuthenticationError"    -> "LaMetricError"
      [] cls = "CancelledError"                 -> "BaseException"
      [] OTHER                                  -> "Exception"

\* isinstance(cls(), parent) for the classes above (depth of the hierarchy is 3).
IsA(cls, parent) ==
    \/ cls = parent
    \/ Base(cls) = parent
    \/ Base(Base(cls)) = parent
    \/ parent = "Exception" /\ Base(cls) # "BaseException"

Raise(cls, status, message) ==
    [kind |-> "raise", err |-> cls, status |-> status, message |-> message]

Return(value) == [kind |-> "return", value |-> value]

NoResult == [kind |-> "none"]

-----------------------------------------------------------------------------
(* The typed models of models.py *)

\* A field that is None holds <<>>, a field that is set holds <<value>>.
None == <<>>

Some(v) == <<v>>

IsNone(o) == Len(o) = 0

\* A typed object: its class and its fields under their semantic names.
Obj(cls, fields) == [cls |-> cls, f |-> fields]

\* The fields of each dataclass (of Device the ones kept here).
FieldsOf(cls) ==
    CASE cls = "Device"   -> {"device_id", "mode", "name"}
      [] cls = "Chart"    -> {"data"}
      [] cls = "Simple"   -> {"icon", "text"}
      [] cls = "GoalData" -> {"current", "end", "start", "unit"}
      [] cls = "Goal"     -> {"data", "icon"}
      [] cls = "Sound"    -> {"category", "repeat", "sound"}
      [] cls = "Model"    -> {"cycles", "frames", "sound"}
      [] OTHER            -> {"created", "expiration_date", "icon_type", "life_time",
                              "model", "notification_id", "notification_type",
                              "priority"}

\* Alias with every field under its own name: no field_options(alias=...).
Alias_None(cls, field) == field

\* field_options(alias=...): the wire name of a field.
Alias(cls, field) ==
    CASE cls = "Device" /\ field = "device_id"               -> "id"
      [] cls = "Chart" /\ field = "data"                     -> "chartData"
      [] cls = "Goal" /\ field = "data"                      -> "goalData"
      [] cls = "Sound" /\ field = "sound"                    -> "id"
      [] cls = "Notification" /\ field = "notification_id"   -> "id"
      [] cls = "Notification" /\ field = "notification_type" -> "type"
      [] OTHER                                               -> field

\* The fields with a default value, and that value.
HasDefault(cls, field) ==
    \/ cls = "Simple" /\ field = "icon"
    \/ cls = "GoalData" /\ field = "unit"
    \/ cls = "Goal" /\ field = "icon"
    \/ cls = "Sound" /\ field \in {"category", "repeat"}
    \/ cls = "Model" /\ field \in {"cycles", "sound"}
    \/ cls = "Notification" /\ field # "model"

Default(cls, field) ==
    IF (cls = "Sound" /\ field = "repeat") \/ (cls = "Model" /\ field = "cycles")
    THEN Some(1)
    ELSE None

\* What a field holds: a nested dataclass, the list of frames, or a plain
\* value.
FieldClass(cls, field) ==
    CASE cls = "Goal" /\ field = "data"          -> "GoalData"
      [] cls = "Model" /\ field = "sound"        -> "Sound"
      [] cls = "Model" /\ field = "frames"       -> "frames"
      [] cls = "Notification" /\ field = "model" -> "Model"
      [] OTHER                                   -> "plain"

\* class Config(BaseConfig) of each dataclass; a dataclass without one has
\* mashumaro's defaults.
Config(cls) ==
    CASE cls \in {"Chart", "Goal", "Sound"} ->
            [serialize_by_alias |-> TRUE, omit_none |-> FALSE,
             allow_deserialization_not_by_alias |-> TRUE]
      [] cls = "Notification" ->
            [serialize_by_alias |-> TRUE, omit_none |-> TRUE,
             allow_deserialization_not_by_alias |-> FALSE]
      [] OTHER ->
            [serialize_by_alias |-> FALSE, omit_none |-> FALSE,
             allow_deserialization_not_by_alias |-> FALSE]

\* DictArgs with exclude_none off: a field that is None is written as null.
DictArgs_KeepNone(cls) ==
    [serialize_by_alias |-> TRUE, omit_none |-> FALSE,
     allow_deserialization_not_by_alias |-> FALSE]

\* The options of notification.dict(by_alias=True, exclude_none=True): they
\* hold for the object and for everything nested in it.
DictArgs(cls) ==
    [serialize_by_alias |-> TRUE, omit_none |-> TRUE,
     allow_deserialization_not_by_alias |-> FALSE]

AlarmSound ==
    {"alarm1", "alarm2", "alarm3", "alarm4", "alarm5", "alarm6", "alarm7",
     "alarm8", "alarm9", "alarm10", "alarm11", "alarm12", "alarm13"}

NotificationSound ==
    {"bicycle", "car", "cash", "cat", "dog", "dog2", "energy", "knock-knock",
     "letter_email", "lose1", "lose2", "negative1", "negative2", "negative3",
     "negative4", "negative5", "notification", "notification2", "notification3",
     "notification4", "open_door", "positive1", "positive2", "positive3",
     "positive4", "positive5", "positive6", "statistic", "thunder", "water1",
     "water2", "win", "win2", "wind", "wind_short"}

\* InferCategory with the second membership test missing.
InferCategory_AlarmsOnly(category, sound) ==
    IF ~IsNone(category) THEN category
    ELSE IF sound \in AlarmSound THEN Some("alarms") ELSE None

\* Sound.__post_init__: an explicit category stays; otherwise two membership
\* tests run one after the other, the second overwriting the first.
InferCategory(category, sound) ==
    IF ~IsNone(category) THEN category
    ELSE LET first == IF sound \in AlarmSound THEN Some("alarms") ELSE category
         IN  IF sound \in NotificationSound THEN Some("notifications") ELSE first

\* PostInit without the early return: the category is inferred even when
\* the caller supplied one.
PostInit_Overwrites(obj) ==
    IF obj.cls = "Sound"
    THEN [obj EXCEPT !.f.category = InferCategory(None, obj.f.sound[1])]
    ELSE obj

\* What the dataclass's __init__ leaves: for Sound the inferred category.
PostInit(obj) ==
    IF obj.cls = "Sound"
    THEN [obj EXCEPT !.f.category = InferCategory(obj.f.category, obj.f.sound[1])]
    ELSE obj

\* The options a serialization runs under: to_dict() takes them from the
\* Config of each class, dict(...) from its arguments.
Options(how, cls) == IF how = "dict" THEN DictArgs(cls) ELSE Config(cls)

RECURSIVE Wire_FramesReversed(_, _)
\* Wire writing a list from its last element to its first.
Wire_FramesReversed(obj, how) ==
    LET c      == obj.cls
        kept   == { f \in FieldsOf(c) : ~Options(how, c).omit_none \/ ~IsNone(obj.f[f]) }
        key(f) == IF Options(how, c).serialize_by_alias THEN Alias(c, f) ELSE f
        val(f) ==
            IF IsNone(obj.f[f]) THEN None
            ELSE CASE FieldClass(c, f) = "plain" -> obj.f[f]
                   [] FieldClass(c, f) = "frames" ->
                        LET l == obj.f[f][1]
                        IN  Some([i \in 1..Len(l) |->
                                    Wire_FramesReversed(l[Len(l) + 1 - i], how)])
                   [] OTHER -> Some(Wire_FramesReversed(obj.f[f][1], how))
    IN  [k \in { key(f) : f \in kept } |-> val(CHOOSE f \in kept : key(f) = k)]

RECURSIVE Wire(_, _)
\* Serialization: the wire document of a typed object.  A field that is None
\* is left out under omit_none and written as null otherwise; the key is the
\* alias under serialize_by_alias; nested objects and the elements of a list
\* are serialized in turn, the list in its order.
Wire(obj, how) ==
    LET c      == obj.cls
        kept   == { f \in FieldsOf(c) : ~Options(how, c).omit_none \/ ~IsNone(obj.f[f]) }
        key(f) == IF Options(how, c).serialize_by_alias THEN Alias(c, f) ELSE f
        val(f) ==
            IF IsNone(obj.f[f]) THEN None
            ELSE CASE FieldClass(c, f) = "plain" -> obj.f[f]
                   [] FieldClass(c, f) = "frames" ->
                        LET l == obj.f[f][1]
                        IN  Some([i \in 1..Len(l) |-> Wire(l[i], how)])
                   [] OTHER -> Some(Wire(obj.f[f][1], how))
    IN  [k \in { key(f) : f \in kept } |-> val(CHOOSE f \in kept : key(f) = k)]

\* to_dict() of a dataclass.
to_dict(obj) == Wire(obj, "to_dict")

\* What deserialization gives for a document that lacks a required field.
MissingField == Obj("MissingField", <<>>)

\* FrameVariants with Simple tried before the other two.
FrameVariants_SimpleFirst == <<"Simple", "Chart", "Goal">>

\* The order in which the variants of list[Chart | Goal | Simple] are tried.
FrameVariants == <<"Chart", "Goal", "Simple">>

\* The key a field is read from: its alias, or its own name where the Config
\* allows that; None when the document has neither.
KeyOf(cls, field, doc) ==
    IF Alias(cls, field) \in DOMAIN doc THEN Some(Alias(cls, field))
    ELSE IF Config(cls).allow_deserialization_not_by_alias /\ field \in DOMAIN doc
         THEN Some(field)
         ELSE None

RECURSIVE Accepts(_, _)
\* A document can be read as class cls: every field without a default has
\* its key, nested documents can be read as the class of their field, and
\* every frame as one of the variants.
Accepts(cls, doc) ==
    \A f \in FieldsOf(cls) :
        IF IsNone(KeyOf(cls, f, doc)) THEN HasDefault(cls, f)
        ELSE LET raw == doc[KeyOf(cls, f, doc)[1]]
             IN  \/ IsNone(raw)
                 \/ CASE FieldClass(cls, f) = "plain" -> TRUE
                       [] FieldClass(cls, f) = "frames" ->
                            \A i \in 1..Len(raw[1]) :
                                \E v \in 1..Len(FrameVariants) :
                                    Accepts(FrameVariants[v], raw[1][i])
                       [] OTHER -> Accepts(FieldClass(cls, f), raw[1])

RECURSIVE Build(_, _)
\* The typed object of a document that can be read as cls: a field the
\* document lacks takes its default, a frame is the first variant that
\* accepts it, and __post_init__ runs on the result.
Build(cls, doc) ==
    LET frame(d) ==
            LET fits == { v \in 1..Len(FrameVariants) : Accepts(FrameVariants[v], d) }
            IN  Build(FrameVariants[CHOOSE v \in fits : \A w \in fits : v <= w], d)
        val(f) ==
            IF IsNone(KeyOf(cls, f, doc)) THEN Default(cls, f)
            ELSE LET raw == doc[KeyOf(cls, f, doc)[1]]
                 IN  IF IsNone(raw) THEN None
                     ELSE CASE FieldClass(cls, f) = "plain" -> raw
                            [] FieldClass(cls, f) = "frames" ->
                                 Some([i \in 1..Len(raw[1]) |-> frame(raw[1][i])])
                            [] OTHER -> Some(Build(FieldClass(cls, f), raw[1]))
    IN  PostInit(Obj(cls, [f \in FieldsOf(cls) |-> val(f)]))

\* Deserialization: the typed object of class cls a wire document gives; a
\* document that cannot be read as cls is refused.
from_dict(cls, doc) ==
    IF Accepts(cls, doc) THEN Build(cls, doc) ELSE MissingField

\* Typed objects as callers build them.
NewSound(category, sound) ==
    PostInit(Obj("Sound", [category |-> category, repeat |-> Some(1), sound |-> Some(sound)]))

SimpleFrame == Obj("Simple", [icon |-> None, text |-> Some("a")])

GoalFrame ==
    Obj("Goal", [data |-> Some(Obj("GoalData",
                        [current |-> Some(65), end |-> Some(100), start |-> Some(0),
                         unit |-> None])),
                 icon |-> Some("i120")])

ChartFrame == Obj("Chart", [data |-> Some(<<1, 2, 3>>)])

Frames == {SimpleFrame, GoalFrame, ChartFrame}

FrameLists == UNION { [1..n -> Frames] : n \in 0..MaxFrames }

NewModel(frames, sound) ==
    Obj("Model", [cycles |-> Some(1), frames |-> Some(frames), sound |-> sound])

NewNotification(model, id, type, life_time) ==
    Obj("Notification",
        [created |-> None, expiration_date |-> None, icon_type |-> None,
         life_time |-> life_time, model |-> Some(model), notification_id |-> id,
         notification_type |-> type, priority |-> None])

\* What a caller sets besides the frames: a sound, the type and the life
\* time, or none of them.
Extras ==
    { <<None, None, None>>,
      <<Some(NewSound(None, "win")), Some("external"), Some(5)>> }

\* Notifications as callers build them: no id, the device assigns it.
Notifications ==
    { NewNotification(NewModel(fl, x[1]), None, x[2], x[3]) :
        fl \in FrameLists, x \in Extras }

\* The notifications handed to notify(): a text, a goal and a chart frame,
\* no id (the device assigns it).
NotifyInputs ==
    { NewNotification(NewModel(<<SimpleFrame, GoalFrame, ChartFrame>>, snd), None, ty, lt) :
        snd \in {None, Some(NewSound(None, "win"))},
        ty \in {None, Some("external")},
        lt \in {None, Some(5)} }

Devices ==
    { Obj("Device", [device_id |-> Some("dev1"), mode |-> Some(m), name |-> Some("clock")]) :
        m \in {"auto", "manual"} }

\* The value a wire frame holds under each of its keys.
FrameValue(key) ==
    CASE key = "chartData" -> Some(<<1, 2, 3>>)
      [] key = "goalData"  -> Some(to_dict(GoalFrame.f.data[1]))
      [] key = "text"      -> Some("a")
      [] OTHER             -> Some("i120")

\* Wire frames as a device or a caller's document can hold them: any of the
\* shape-defining keys chartData, goalData and text, with or without icon.
WireFrames ==
    { [k \in S |-> FrameValue(k)] : S \in SUBSET {"chartData", "goalData", "text", "icon"} }

\* The wire document of a model that holds one frame.
ModelDocOf(frame) == [frames |-> Some(<<frame>>)]

\* const.py: the values of DeviceMode.
DeviceMode == {"auto", "kiosk", "manual", "schedule"}

\* The device in mode m.
DeviceWith(m) ==
    Obj("Device", [device_id |-> Some("dev1"), mode |-> Some(m), name |-> Some("clock")])

\* A notification as it sits in the device's queue under id.
Queued(id) ==
    NewNotification(NewModel(<<SimpleFrame>>, None),
                    Some(id), Some("external"), None)

\* The typed objects that are serialized; the documents that are deserialized
\* are what to_dict() writes for them and their wire form with every alias in
\* place and no null.
ModelObjects ==
    Notifications \cup Frames \cup Devices \cup
    { NewSound(None, "win"), NewSound(None, "alarm1") } \cup
    { Queued(id) : id \in {0, 1} }

-----------------------------------------------------------------------------
(* The transport: what one attempt of session.request can end in *)

ConnFailures == {"gaierror", "ClientConnectorError", "TimeoutError"}

Fail(k) == [kind |-> k]

Response(status, json, text, read) ==
    [kind |-> "response", status |-> status, json |-> json, text |-> text, read |-> read]

\* Response bodies.  "plain" is a state document, "wrapped" the answer of a
\* write endpoint, "garbage" is text that is no JSON document.
Texts == {"plain", "wrapped", "garbage"}

\* The packages of the apps a device answers GET /api/v2/device/apps with.
Packages == {"com.lametric.clock", "com.lametric.radio"}

\* The ids a notification in the device's queue can carry.
NotifIds == {0, 1, 2}

\* The notification queues the device answers with: up to MaxQueue entries,
\* each id at most once.
Queues ==
    { q \in UNION { [1..n -> NotifIds] : n \in 0..MaxQueue } :
        \A i, j \in 1..Len(q) : i # j => q[i] # q[j] }

\* The body text of the answer to GET /api/v2/device/notifications.
QueueText(q) == "queue" \o ToString(q)

QueueTexts == { QueueText(q) : q \in Queues }

\* The JSON list a queue text parses to: one document per notification.
QueueOf(text) ==
    LET q == CHOOSE q \in Queues : QueueText(q) = text
    IN  [i \in 1..Len(q) |-> to_dict(Queued(q[i]))]

\* The body text of the answer to GET /api/v2/device/notifications/current
\* while the notification with this id is on the display.
CurrentText(id) == "current" \o ToString(id)

CurrentTexts == { CurrentText(id) : id \in NotifIds }

CurrentOf(text) == to_dict(Queued(CHOOSE id \in NotifIds : CurrentText(id) = text))

\* The wifi section of the device resource, under the names the device uses.
WifiSection == [address |-> "AA:BB", essid |-> "net", strength |-> 50]

\* The body text of the answer to GET /api/v2/device of a device in mode m,
\* and the document it parses to.
DeviceText(m) == "device_" \o m

DeviceTexts == { DeviceText(m) : m \in DeviceMode }

DeviceDoc(m) == Wire(DeviceWith(m), "dict") @@ ("wifi" :> WifiSection)

\* The body text of the answer to PUT /api/v2/device that reports mode m.
ModeSetText(m) == "mode_set_" \o m

ModeSetTexts == { ModeSetText(m) : m \in DeviceMode }

\* response.json(): the document a body text parses to.
JsonOf(text) ==
    CASE text = "plain"      -> [v |-> 1, mac |-> "AA"]
      [] text = "wrapped"    -> [success |-> [data |-> [v |-> 2, mac |-> "BB"], id |-> 7]]
      [] text \in QueueTexts -> [list |-> QueueOf(text)]
      [] text = "apps"       -> [packages |-> Packages]
      [] text \in CurrentTexts -> CurrentOf(text)
      [] text = "empty"      -> <<>>
      [] text = "device"     -> DeviceDoc("auto")
      [] text = "mode_set"   -> [success |-> [data |-> [mode |-> "manual"]]]
      [] text \in DeviceTexts ->
            DeviceDoc(CHOOSE m \in DeviceMode : DeviceText(m) = text)
      [] text \in ModeSetTexts ->
            [success |-> [data |->
                [mode |-> CHOOSE m \in DeviceMode : ModeSetText(m) = text]]]
      [] OTHER               -> [invalid |-> TRUE]

ParsesAsJson(text) ==
    text \in {"plain", "wrapped", "apps", "empty", "device", "mode_set"}
             \cup QueueTexts \cup CurrentTexts \cup DeviceTexts \cup ModeSetTexts

\* Error responses: raise_for_status=True raises before the body is read.
ErrorResponses ==
    { Response(s, TRUE, "plain", "unread") : s \in {401, 403, 404, 500} } \cup
    { Response(s, FALSE, "garbage", "unread") : s \in {401, 403, 404, 500} }

\* 2xx responses: headers arrive, then the body is read ("ok") or the
\* connection breaks while it is read ("reset").
OkResponses ==
    { Response(200, j, t, "ok") : j \in BOOLEAN, t \in Texts } \cup
    { Response(200, j, "plain", "reset") : j \in BOOLEAN }

AllOutcomes == { Fail(k) : k \in ConnFailures } \cup ErrorResponses \cup OkResponses

FewOutcomes ==
    { Fail("TimeoutError"), Response(200, TRUE, "plain", "ok"),
      Response(500, TRUE, "plain", "unread") }

\* A response whose body arrived later than request_timeout after the
\* request was sent: the body is read after the timeout block is left.
Late(r) ==
    [kind |-> r.kind, status |-> r.status, json |-> r.json, text |-> r.text,
     read |-> r.read, late |-> TRUE]

IsLate(out) == "late" \in DOMAIN out

Pending == [kind |-> "pending"]

SessionClosed == [kind |-> "closed"]

\* The caller cancelled the task while it awaited session.request:
\* asyncio.CancelledError is raised at the await.
Cancelled == [kind |-> "cancelled"]

-----------------------------------------------------------------------------
(* _request: one attempt *)

MsgTimeout == "Timeout occurred while connecting"
MsgAuth    == "Authentication failed"
MsgError   == "Error occurred while connecting"
MsgComm    == "Error occurred while communicating"
MsgClosed  == "Session is closed"
MsgCancel  == "Cancelled by the caller"

\* AfterHeaders with the content-type error raised as a connection error.
AfterHeaders_Retryable(out) ==
    IF ~out.json \/ out.read # "ok"
    THEN Raise("LaMetricConnectionError", 0, MsgComm)
    ELSE IF ParsesAsJson(out.text)
         THEN Return(JsonOf(out.text))
         ELSE Raise("JSONDecodeError", 0, out.text)

\* Lines 95-101 of device.py, 80-83 of cloud.py: what follows a response
\* that passed raise_for_status.  Reading the body is inside the try block,
\* so a broken read is an aiohttp.ClientError.
AfterHeaders(out) ==
    IF ~out.json
    THEN IF out.read = "ok"
         THEN Raise("LaMetricError", out.status, out.text)
         ELSE Raise("LaMetricConnectionError", 0, MsgComm)
    ELSE IF out.read # "ok"
         THEN Raise("LaMetricConnectionError", 0, MsgComm)
         ELSE IF ParsesAsJson(out.text)
              THEN Return(JsonOf(out.text))
              ELSE Raise("JSONDecodeError", 0, out.text)

\* DeviceAttempt with 403 left out of the authentication statuses.
DeviceAttempt_Only401(out) ==
    CASE out.kind = "closed"              -> Raise("RuntimeError", 0, MsgClosed)
      [] out.kind = "TimeoutError"        -> Raise("LaMetricConnectionTimeoutError", 0, MsgTimeout)
      [] out.kind = "response" /\ out.status >= 400 ->
            IF out.status = 401
            THEN Raise("LaMetricAuthenticationError", 0, MsgAuth)
            ELSE Raise("LaMetricError", 0, MsgError)
      [] out.kind = "response" /\ out.status < 400 ->
            IF ~out.json
            THEN IF out.read = "ok"
                 THEN Raise("LaMetricError", out.status, out.text)
                 ELSE Raise("LaMetricConnectionError", 0, MsgComm)
            ELSE IF out.read # "ok"
                 THEN Raise("LaMetricConnectionError", 0, MsgComm)
                 ELSE IF out.text \in {"plain", "wrapped"}
                      THEN Return(JsonOf(out.text))
                      ELSE Raise("JSONDecodeError", 0, out.text)
      [] OTHER                            -> Raise("LaMetricConnectionError", 0, MsgComm)

\* LaMetricDevice._request, the try block and its except clauses; none of
\* them catches asyncio.CancelledError.
DeviceAttempt(out) ==
    CASE out.kind = "closed"              -> Raise("RuntimeError", 0, MsgClosed)
      [] out.kind = "cancelled"           -> Raise("CancelledError", 0, MsgCancel)
      [] out.kind = "TimeoutError"        -> Raise("LaMetricConnectionTimeoutError", 0, MsgTimeout)
      [] out.kind = "response" /\ out.status >= 400 ->
            IF out.status \in AuthStatuses
            THEN Raise("LaMetricAuthenticationError", 0, MsgAuth)
            ELSE Raise("LaMetricError", 0, MsgError)
      [] out.kind = "response" /\ out.status < 400 -> AfterHeaders(out)
      [] OTHER                            -> Raise("LaMetricConnectionError", 0, MsgComm)

\* LaMetricCloud._request, the try block and its except clauses: there is no
\* clause for aiohttp.ClientResponseError, which is an aiohttp.ClientError.
CloudAttempt(out) ==
    CASE out.kind = "closed"              -> Raise("RuntimeError", 0, MsgClosed)
      [] out.kind = "cancelled"           -> Raise("CancelledError", 0, MsgCancel)
      [] out.kind = "TimeoutError"        -> Raise("LaMetricConnectionTimeoutError", 0, MsgTimeout)
      [] out.kind = "response" /\ out.status < 400 -> AfterHeaders(out)
      [] OTHER                            -> Raise("LaMetricConnectionError", 0, MsgComm)

\* Attempt with a cancellation caught by the clause for asyncio.TimeoutError.
Attempt_CancelIsTimeout(out) ==
    IF out.kind = "cancelled"
    THEN Raise("LaMetricConnectionTimeoutError", 0, MsgTimeout)
    ELSE IF kind = "device" THEN DeviceAttempt(out) ELSE CloudAttempt(out)

Attempt(out) == IF kind = "device" THEN DeviceAttempt(out) ELSE CloudAttempt(out)

\* Retries with the bound off by one: a fourth attempt is made.
Retries_OffByOne(res, tries) ==
    /\ res.kind = "raise"
    /\ res.err \in {"LaMetricConnectionError", "LaMetricConnectionTimeoutError"}
    /\ tries <= MaxTries

\* backoff.on_exception(backoff.expo, LaMetricConnectionError, max_tries=3):
\* the attempt is repeated iff it raised a LaMetricConnectionError and fewer
\* than max_tries attempts have been made.
Retries(res, tries) ==
    /\ res.kind = "raise"
    /\ IsA(res.err, "LaMetricConnectionError")
    /\ tries < MaxTries

-----------------------------------------------------------------------------
(* Typed models and the endpoint methods' request bodies *)

\* Model.parse_obj(doc): the typed object, or a validation error when the
\* document lacks the state fields.
parse_obj(cls, doc) ==
    IF "v" \in DOMAIN doc
    THEN Return([cls |-> cls, v |-> doc.v])
    ELSE Raise("ValidationError", 0, cls)

\* response["success"]["data"] of a write endpoint's answer, then parse_obj.
parse_success_data(cls, doc) ==
    IF "success" \in DOMAIN doc /\ "data" \in DOMAIN doc.success
    THEN parse_obj(cls, doc.success.data)
    ELSE Raise("KeyError", 0, "success")

\* bluetooth(): response.update(address=response.get("mac")), then parse_obj.
parse_bluetooth(doc) ==
    IF "v" \in DOMAIN doc /\ "mac" \in DOMAIN doc
    THEN Return([cls |-> "Bluetooth", v |-> doc.v, address |-> doc.mac])
    ELSE Raise("ValidationError", 0, "Bluetooth")

\* parse_obj_as(list[cls], data): the typed objects of a JSON list.
parse_obj_as_list(cls, doc) ==
    IF "list" \notin DOMAIN doc
    THEN Raise("ValidationError", 0, cls)
    ELSE LET l == [i \in 1..Len(doc.list) |-> from_dict(cls, doc.list[i])]
         IN  IF \E i \in 1..Len(l) : l[i].cls = "MissingField"
             THEN Raise("ValidationError", 0, cls)
             ELSE Return([list |-> l])

\* parse_obj_as(dict[str, Application], data): the apps by package.
parse_obj_as_apps(doc) ==
    IF "packages" \in DOMAIN doc
    THEN Return([apps |-> doc.packages])
    ELSE Raise("ValidationError", 0, "Application")

\* parse_device on a client that numbers the results it hands out: the
\* result carries how many callers the client has served.
parse_device_Numbered(doc) ==
    IF "wifi" \notin DOMAIN doc
    THEN Raise("KeyError", 0, "wifi")
    ELSE LET w      == doc.wifi
             get(k) == IF k \in DOMAIN w THEN Some(w[k]) ELSE None
             wifi   == [k \in DOMAIN w \cup {"mac", "ssid", "rssi"} |->
                            CASE k = "mac"  -> get("address")
                              [] k = "ssid" -> get("essid")
                              [] k = "rssi" -> get("strength")
                              [] OTHER      -> get(k)]
         IN  Return([device |-> from_dict("Device", doc), wifi |-> wifi,
                     served |-> Cardinality({ u \in DOMAIN task : task[u].calls > 0 })])

\* device(): response["wifi"].update(mac=..., ssid=..., rssi=...) with what
\* .get() finds under address, essid and strength, then Device.parse_obj.
parse_device(doc) ==
    IF "wifi" \notin DOMAIN doc
    THEN Raise("KeyError", 0, "wifi")
    ELSE LET w      == doc.wifi
             get(k) == IF k \in DOMAIN w THEN Some(w[k]) ELSE None
             wifi   == [k \in DOMAIN w \cup {"mac", "ssid", "rssi"} |->
                            CASE k = "mac"  -> get("address")
                              [] k = "ssid" -> get("essid")
                              [] k = "rssi" -> get("strength")
                              [] OTHER      -> get(k)]
             dev    == from_dict("Device", doc)
         IN  IF dev.cls = "MissingField"
             THEN Raise("ValidationError", 0, "Device")
             ELSE Return([device |-> dev, wifi |-> wifi])

\* DeviceMode(value): the member with this value, or a ValueError.
ToDeviceMode(value) ==
    IF value \in DeviceMode
    THEN Return([mode |-> value])
    ELSE Raise("ValueError", 0, "DeviceMode")

\* The value of a method that returns nothing.
NoneValue == [none |-> TRUE]

\* notification_current(): `if data := ...` is false for an empty document,
\* and the method returns None; otherwise parse_obj_as(Notification, data).
parse_current(doc) ==
    IF DOMAIN doc = {}
    THEN Return(NoneValue)
    ELSE IF from_dict("Notification", doc).cls = "MissingField"
         THEN Raise("ValidationError", 0, "Notification")
         ELSE Return(from_dict("Notification", doc))

\* The keyword parameters the signature of each endpoint method accepts.
Signature(op) ==
    CASE op = "display"   -> {"brightness", "brightness_mode", "screensaver_enabled"}
      [] op = "audio"     -> {"volume"}
      [] op = "bluetooth" -> {"active"}
      [] OTHER            -> {}

\* display(): the dict `data` built from the keyword arguments that are not None.
DisplayData(kwargs) ==
    LET keys == { k \in {"brightness", "brightness_mode"} : k \in DOMAIN kwargs } \cup
                { k \in {"screensaver"} : "screensaver_enabled" \in DOMAIN kwargs }
    IN  [k \in keys |-> IF k = "screensaver"
                        THEN [enabled |-> kwargs["screensaver_enabled"]]
                        ELSE kwargs[k]]

\* audio(): data["volume"] = volume when volume is not None.
AudioData(kwargs) ==
    [k \in { k \in {"volume"} : k \in DOMAIN kwargs } |-> kwargs[k]]

\* bluetooth(): data["active"] = active when active is not None.
BluetoothData(kwargs) ==
    [k \in { k \in {"active"} : k \in DOMAIN kwargs } |-> kwargs[k]]

\* `if data:` -- a dict is true iff it has a key.
Truthy(data) == DOMAIN data # {}

EndpointUri(op) ==
    CASE op = "display"   -> "/api/v2/device/display"
      [] op = "audio"     -> "/api/v2/device/audio"
      [] OTHER            -> "/api/v2/device/bluetooth"

EndpointData(op, kwargs) ==
    CASE op = "display"   -> DisplayData(kwargs)
      [] op = "audio"     -> AudioData(kwargs)
      [] OTHER            -> BluetoothData(kwargs)

\* What a public method does with the outcome of its _request call: an
\* exception propagates, a document is turned into the method's result.
OpResult(op, kwargs, res) ==
    IF res.kind = "raise" THEN res
    ELSE CASE op = "display" ->
                IF Truthy(DisplayData(kwargs))
                THEN parse_success_data("Display", res.value)
                ELSE parse_obj("Display", res.value)
           [] op = "audio" ->
                IF Truthy(AudioData(kwargs))
                THEN parse_success_data("Audio", res.value)
                ELSE parse_obj("Audio", res.value)
           [] op = "bluetooth" ->
                IF Truthy(BluetoothData(kwargs))
                THEN IF "success" \in DOMAIN res.value /\ "data" \in DOMAIN res.value.success
                     THEN parse_bluetooth(res.value.success.data)
                     ELSE Raise("KeyError", 0, "success")
                ELSE parse_bluetooth(res.value)
           [] op = "notify" ->
                IF "success" \in DOMAIN res.value /\ "id" \in DOMAIN res.value.success
                THEN Return([int |-> res.value.success.id])
                ELSE Raise("KeyError", 0, "success")
           [] op = "notification_queue" -> parse_obj_as_list("Notification", res.value)
           [] op = "dismiss_notification" -> Return(NoneValue)
           [] op = "notification_current" -> parse_current(res.value)
           [] op \in {"app_next", "app_previous", "activate_widget", "do_action"} ->
                Return(NoneValue)
           [] op = "apps" -> parse_obj_as_apps(res.value)
           [] op = "mode" ->
                IF "mode" \in DOMAIN kwargs
                THEN IF /\ "success" \in DOMAIN res.value
                        /\ "data" \in DOMAIN res.value.success
                        /\ "mode" \in DOMAIN res.value.success.data
                     THEN ToDeviceMode(res.value.success.data.mode)
                     ELSE Raise("KeyError", 0, "success")
                ELSE LET dev == parse_device(res.value)
                     IN  IF dev.kind = "raise"
                         THEN dev
                         ELSE Return([mode |-> dev.value.device.f.mode[1]])
           [] op = "device" -> parse_device(res.value)
           [] OTHER -> res

-----------------------------------------------------------------------------
(* Caller tasks *)

\* The local variables of a public method that makes several requests: the
\* statement it has reached and the notifications its loop has yet to visit.
NoLocals == [step |-> "only", todo |-> <<>>]

\* A caller task: the public method it runs, the attempts of the _request
\* call in progress (log) and of the _request calls the method has already
\* finished (past).
Idle ==
    [pc |-> "idle", op |-> "none", kwargs |-> <<>>, calls |-> 0,
     log |-> <<>>, past |-> <<>>, mem |-> NoLocals, result |-> NoResult]

Tasks == DOMAIN task

Last(seq) == seq[Len(seq)]

CanCall(t) == task[t].pc \in {"idle", "done"} /\ task[t].calls < MaxCalls

\* A fresh call record of task t for public method op.
NewCall(t, op, kwargs) ==
    [pc |-> "flight", op |-> op, kwargs |-> kwargs, calls |-> task[t].calls + 1,
     log |-> <<>>, past |-> <<>>, mem |-> NoLocals, result |-> NoResult]

\* NeedsSession without the None test: every attempt makes a session.
NeedsSession_Always == TRUE

\* `if self.session is None:`
NeedsSession == session = 0

\* Settle judging the call by its first attempt instead of its last.
Settle_FirstAttempt(rec) ==
    LET res == Attempt(rec.log[1].out)
    IN  IF Retries(res, Len(rec.log))
        THEN [rec EXCEPT !.pc = "backoff"]
        ELSE [rec EXCEPT !.pc = "done", !.result = OpResult(rec.op, rec.kwargs, res)]

\* The decorator's loop after an attempt ended in `out`: sleep before the
\* next attempt, or leave _request and finish the public method.
Settle(rec) ==
    LET res == Attempt(Last(rec.log).out)
    IN  IF Retries(res, Len(rec.log))
        THEN [rec EXCEPT !.pc = "backoff"]
        ELSE [rec EXCEPT !.pc = "done", !.result = OpResult(rec.op, rec.kwargs, res)]

\* _request up to its first suspension: create the session when there is
\* none, then hand the request to session.request, which refuses at once
\* when the session is closed.
Issue(t, rec, method, uri, body) ==
    LET s == IF NeedsSession THEN created + 2 ELSE session
        entry(out) == [session |-> s, method |-> method, uri |-> uri,
                       body |-> body, out |-> out]
    IN  /\ session' = s
        /\ close_session' = (IF NeedsSession THEN TRUE ELSE close_session)
        /\ created' = (IF NeedsSession THEN created + 1 ELSE created)
        /\ IF s \in closed
           THEN task' = [task EXCEPT ![t] =
                    Settle([rec EXCEPT !.log = Append(rec.log, entry(SessionClosed))])]
           ELSE task' = [task EXCEPT ![t] =
                    [rec EXCEPT !.pc = "flight", !.log = Append(rec.log, entry(Pending))]]
        /\ UNCHANGED <<kind, supplied, closed, scope, exc_info, env>>

\* A later _request call of a method that has finished an earlier one: the
\* session exists by now, and session.request refuses when it is closed.
StartNext(rec, method, uri, body) ==
    LET entry(out) == [session |-> session, method |-> method, uri |-> uri,
                       body |-> body, out |-> out]
        moved == [rec EXCEPT !.past = rec.past \o rec.log, !.result = NoResult]
    IN  IF session \in closed
        THEN Settle([moved EXCEPT !.log = <<entry(SessionClosed)>>])
        ELSE [moved EXCEPT !.pc = "flight", !.log = <<entry(Pending)>>]

NotificationsUri == "/api/v2/device/notifications"

\* f"/api/v2/device/notifications/{notification_id}"
DeleteUri(id) == NotificationsUri \o "/" \o ToString(id)

\* DismissOrder without reversed(): the queue from its first entry on.
DismissOrder_Forward(notifications) == notifications

\* `for notification in reversed(notifications):`
DismissOrder(notifications) ==
    [i \in 1..Len(notifications) |-> notifications[Len(notifications) + 1 - i]]

\* `if notification.notification_id:` is false for None and for 0.
HasId(notification) ==
    /\ ~IsNone(notification.f.notification_id)
    /\ notification.f.notification_id[1] # 0

RECURSIVE DismissLoop(_, _)
\* The loop of dismiss_all_notifications from the notifications in todo on:
\* it runs to the next dismiss_notification call or to the end of the method.
DismissLoop(rec, todo) ==
    IF todo = <<>>
    THEN [rec EXCEPT !.pc = "done", !.result = Return(NoneValue), !.mem.todo = <<>>]
    ELSE IF HasId(Head(todo))
         THEN StartNext([rec EXCEPT !.mem = [step |-> "dismiss", todo |-> Tail(todo)]],
                        "DELETE", DeleteUri(Head(todo).f.notification_id[1]), <<>>)
         ELSE DismissLoop(rec, Tail(todo))

\* dismiss_current_notification after notification_current() has its
\* answer: an empty document is no notification; a notification whose id is
\* not false is dismissed.
DismissCurrent(rec, data) ==
    IF DOMAIN data = {}
    THEN [rec EXCEPT !.result = Return(NoneValue)]
    ELSE IF from_dict("Notification", data).cls = "MissingField"
         THEN [rec EXCEPT !.result = Raise("ValidationError", 0, "Notification")]
         ELSE DismissLoop(rec, <<from_dict("Notification", data)>>)

\* The methods that make more than one request.
MultiOps == {"dismiss_all_notifications", "dismiss_current_notification"}

\* Advance with the loop of dismiss_all_notifications going on after a
\* dismiss_notification call that raised.
Advance_IgnoresErrors(rec) ==
    IF rec.op \notin MultiOps \/ rec.pc # "done"
    THEN rec
    ELSE IF rec.mem.step = "dismiss"
         THEN DismissLoop(rec, rec.mem.todo)
    ELSE IF rec.result.kind # "return"
         THEN rec
    ELSE IF rec.mem.step = "current"
         THEN DismissCurrent(rec, rec.result.value)
         ELSE LET notifications == parse_obj_as_list("Notification", rec.result.value)
              IN  IF notifications.kind = "raise"
                  THEN [rec EXCEPT !.result = notifications]
                  ELSE IF Len(notifications.value.list) = 0
                       THEN [rec EXCEPT !.result = Return(NoneValue)]
                       ELSE DismissLoop(rec, DismissOrder(notifications.value.list))

\* A method that makes several requests runs on when one of its _request
\* calls has returned; an exception of the call ends the method.
Advance(rec) ==
    IF rec.op \notin MultiOps \/ rec.pc # "done" \/ rec.result.kind # "return"
    THEN rec
    ELSE IF rec.mem.step = "current"
         THEN DismissCurrent(rec, rec.result.value)
    ELSE IF rec.mem.step = "queue"
         THEN LET notifications == parse_obj_as_list("Notification", rec.result.value)
              IN  IF notifications.kind = "raise"
                  THEN [rec EXCEPT !.result = notifications]
                  ELSE IF Len(notifications.value.list) = 0
                       THEN [rec EXCEPT !.result = Return(NoneValue)]
                       ELSE DismissLoop(rec, DismissOrder(notifications.value.list))
         ELSE DismissLoop(rec, rec.mem.todo)

RawMethods == {"GET", "POST"}

\* A direct call of _request, as the tests make it.  The cloud client's
\* _request takes no method: it always sends GET.
_request(t, method) ==
    /\ CanCall(t)
    /\ kind = "cloud" => method = "GET"
    /\ Issue(t, NewCall(t, "_request", <<>>), method, "/", <<>>)

\* The transport finishes the attempt in flight; _request runs on to its
\* next suspension or to its end.
Respond(t, out) ==
    /\ task[t].pc = "flight"
    /\ out \in env
    /\ task' = [task EXCEPT ![t] =
            Advance(Settle([task[t] EXCEPT !.log[Len(task[t].log)].out = out]))]
    /\ UNCHANGED <<kind, supplied, session, close_session, created, closed, scope,
                   exc_info, env>>

\* Retry that repeats the request as a GET without its body.
Retry_AsGet(t) ==
    /\ task[t].pc = "backoff"
    /\ Issue(t, task[t], "GET", task[t].log[1].uri, <<>>)

\* The backoff sleep is over: the decorator calls _request again with the
\* arguments of the first attempt.
Retry(t) ==
    /\ task[t].pc = "backoff"
    /\ LET first == task[t].log[1]
       IN  Issue(t, task[t], first.method, first.uri, first.body)

\* The caller cancels the task (its own timeout around the call expired):
\* CancelledError is raised where the task is suspended, at the attempt in
\* flight or at the sleep of the backoff decorator, which catches
\* LaMetricConnectionError only.
Cancel(t) ==
    /\ task[t].pc \in {"flight", "backoff"}
    /\ task' = [task EXCEPT ![t] =
            IF task[t].pc = "flight"
            THEN Advance(Settle([task[t] EXCEPT !.log[Len(task[t].log)].out = Cancelled]))
            ELSE [task[t] EXCEPT !.pc = "done",
                                 !.result = Raise("CancelledError", 0, MsgCancel)]]
    /\ UNCHANGED <<kind, supplied, session, close_session, created, closed, scope,
                   exc_info, env>>

-----------------------------------------------------------------------------
(* Getter/setter endpoints of the device client *)

\* The i-th value callers pass for parameter p; the values that are false in
\* Python (0, False) are among them.
ArgValue(p, i) ==
    CASE p = "brightness"          -> 0
      [] p = "brightness_mode"     -> "manual"
      [] p = "screensaver_enabled" -> FALSE
      [] p = "on"                  -> TRUE
      [] p = "volume"              -> IF i = 1 THEN 0 ELSE 99
      [] OTHER                     -> i = 2

\* Every way to call a method with keyword arguments out of params.
KwargsOver(params) ==
    { [p \in S |-> ArgValue(p, i)] : S \in SUBSET params, i \in {1, 2} }

\* The keyword arguments callers pass: the parameters of the signature, and
\* for display also on=, which tests/test_display.py passes.
CallerParams(op) ==
    IF op = "display" THEN Signature(op) \cup {"on"} ELSE Signature(op)

\* Calling display/audio/bluetooth: a keyword the signature lacks is a
\* TypeError before any request; no keyword gives a GET, any keyword a PUT
\* of the dict built from them.
Endpoint(t, op, kwargs) ==
    /\ CanCall(t)
    /\ kind = "device"
    /\ IF ~(DOMAIN kwargs \subseteq Signature(op))
       THEN /\ task' = [task EXCEPT ![t] =
                    [NewCall(t, op, kwargs) EXCEPT
                        !.pc = "done", !.result = Raise("TypeError", 0, op)]]
            /\ UNCHANGED <<kind, supplied, session, close_session, created, closed,
                           scope, exc_info, env>>
       ELSE LET data == EndpointData(op, kwargs)
            IN  IF Truthy(data)
                THEN Issue(t, NewCall(t, op, kwargs), "PUT", EndpointUri(op), <<data>>)
                ELSE Issue(t, NewCall(t, op, kwargs), "GET", EndpointUri(op), <<>>)

\* dismiss_all_notifications() up to its first suspension: the request of
\* notification_queue().
dismiss_all_notifications(t) ==
    /\ CanCall(t)
    /\ kind = "device"
    /\ Issue(t, [NewCall(t, "dismiss_all_notifications", <<>>) EXCEPT
                    !.mem = [step |-> "queue", todo |-> <<>>]],
             "GET", NotificationsUri, <<>>)

CurrentUri == NotificationsUri \o "/current"

\* dismiss_current_notification() up to its first suspension: the request of
\* notification_current().
dismiss_current_notification(t) ==
    /\ CanCall(t)
    /\ kind = "device"
    /\ Issue(t, [NewCall(t, "dismiss_current_notification", <<>>) EXCEPT
                    !.mem = [step |-> "current", todo |-> <<>>]],
             "GET", CurrentUri, <<>>)

\* notification_current()
notification_current(t) ==
    /\ CanCall(t)
    /\ kind = "device"
    /\ Issue(t, NewCall(t, "notification_current", <<>>), "GET", CurrentUri, <<>>)

DeviceUri == "/api/v2/device"

\* mode without the `if mode:` branch: a GET whatever the argument.
mode_AlwaysGets(t, kwargs) ==
    /\ CanCall(t)
    /\ kind = "device"
    /\ Issue(t, NewCall(t, "mode", kwargs), "GET", DeviceUri, <<>>)

\* mode(mode=...): `if mode:` sends the PUT, otherwise device() sends a GET.
mode(t, kwargs) ==
    /\ CanCall(t)
    /\ kind = "device"
    /\ IF "mode" \in DOMAIN kwargs
       THEN Issue(t, NewCall(t, "mode", kwargs), "PUT", DeviceUri, <<[mode |-> kwargs.mode]>>)
       ELSE Issue(t, NewCall(t, "mode", kwargs), "GET", DeviceUri, <<>>)

\* notify(notification=...)
notify(t, notification) ==
    /\ CanCall(t)
    /\ kind = "device"
    /\ Issue(t, NewCall(t, "notify", [notification |-> notification]),
             "POST", NotificationsUri, <<Wire(notification, "dict")>>)

\* What the device answers to a request, when it answers: the queue to a
\* GET of the notifications, the success document to a POST or a DELETE.
Answers(request) ==
    CASE request.uri = NotificationsUri /\ request.method = "GET" ->
            { Response(200, TRUE, text, "ok") : text \in QueueTexts }
      [] request.uri = CurrentUri ->
            { Response(200, TRUE, text, "ok") : text \in CurrentTexts \cup {"empty"} }
      [] request.uri = DeviceUri /\ request.method = "GET" ->
            { Response(200, TRUE, text, "ok") : text \in {"device"} \cup DeviceTexts }
      [] request.uri = DeviceUri /\ request.method = "PUT" ->
            { Response(200, TRUE, text, "ok") : text \in {"mode_set"} \cup ModeSetTexts }
      [] OTHER ->
            { Response(200, TRUE, "wrapped", "ok"),
              Late(Response(200, TRUE, "wrapped", "ok")) }

\* The outcomes of an attempt against a device with notifications.
NotifOutcomes ==
    { Fail("TimeoutError"), Response(500, TRUE, "plain", "unread"),
      Response(200, TRUE, "wrapped", "ok"), Late(Response(200, TRUE, "wrapped", "ok")),
      Response(200, TRUE, "device", "ok"), Response(200, TRUE, "mode_set", "ok") } \cup
    { Response(200, TRUE, text, "ok") : text \in QueueTexts \cup CurrentTexts \cup {"empty"} }

\* The attempt in flight ends: in a failure, or in the device's answer to
\* the request that was sent.
DeviceResponds(t, out) ==
    /\ task[t].pc = "flight"
    /\ out.kind = "response" /\ out.status = 200 => out \in Answers(Last(task[t].log))
    /\ Respond(t, out)

\* A call that makes no request: it is finished when it is made.
Compute(t, op, kwargs, result) ==
    /\ CanCall(t)
    /\ task' = [task EXCEPT ![t] =
            [NewCall(t, op, kwargs) EXCEPT !.pc = "done", !.result = result]]
    /\ UNCHANGED <<kind, supplied, session, close_session, created, closed, scope,
                   exc_info, env>>

\* Sound(category=..., sound=...)
Sound(t, category, sound) ==
    Compute(t, "Sound", [category |-> category, sound |-> sound],
            Return(NewSound(category, sound)))

\* obj.to_dict()
Serialize(t, obj) == Compute(t, "to_dict", [obj |-> obj], Return(to_dict(obj)))

\* cls.from_dict(doc)
Deserialize(t, cls, doc) ==
    LET obj == from_dict(cls, doc)
    IN  Compute(t, "from_dict", [cls |-> cls, doc |-> doc],
                IF obj.cls = "MissingField"
                THEN Raise("MissingField", 0, cls)
                ELSE Return(obj))

\* A method of the device client that makes one request.
Request(t, op, kwargs, method, uri, body) ==
    /\ CanCall(t)
    /\ kind = "device"
    /\ Issue(t, NewCall(t, op, kwargs), method, uri, body)

AppsUri == "/api/v2/device/apps"

\* f"/api/v2/device/apps/{package}/widgets/{widget}"
WidgetUri(package, widget) == AppsUri \o "/" \o package \o "/widgets/" \o widget

\* app_next()
app_next(t) == Request(t, "app_next", <<>>, "PUT", AppsUri \o "/next", <<>>)

\* app_previous()
app_previous(t) == Request(t, "app_previous", <<>>, "PUT", AppsUri \o "/prev", <<>>)

\* apps()
apps(t) == Request(t, "apps", <<>>, "GET", AppsUri, <<>>)

\* activate_widget(package=..., widget=...)
activate_widget(t, package, widget) ==
    Request(t, "activate_widget", [package |-> package, widget |-> widget],
            "PUT", WidgetUri(package, widget) \o "/activate", <<>>)

\* do_action(package=..., widget=..., action=..., activate=...)
do_action(t, package, widget, action, activate) ==
    Request(t, "do_action",
            [package |-> package, widget |-> widget, action |-> action,
             activate |-> activate],
            "POST", WidgetUri(package, widget) \o "/actions",
            <<[id |-> action, activate |-> activate, params |-> <<>>]>>)

\* device()
device(t) == Request(t, "device", <<>>, "GET", DeviceUri, <<>>)

\* The outcomes of an attempt against a device that reports and sets its
\* mode.
DeviceOutcomes ==
    { Fail("TimeoutError"), Response(500, TRUE, "plain", "unread") } \cup
    { Response(200, TRUE, text, "ok") : text \in DeviceTexts \cup ModeSetTexts }

\* The outcomes of an attempt against a device that may lack the apps API.
AppOutcomes ==
    { Fail("TimeoutError"),
      Response(404, TRUE, "plain", "unread"), Response(404, FALSE, "garbage", "unread"),
      Response(401, TRUE, "plain", "unread"), Response(500, TRUE, "plain", "unread"),
      Response(200, TRUE, "wrapped", "ok"), Response(200, TRUE, "apps", "ok") }

display(t, kwargs) == Endpoint(t, "display", kwargs)

audio(t, kwargs) == Endpoint(t, "audio", kwargs)

bluetooth(t, kwargs) == Endpoint(t, "bluetooth", kwargs)

-----------------------------------------------------------------------------
(* Releasing the session *)

\* ClosesSession without the ownership flag.
ClosesSession_Unowned == session # 0

\* `if self.session and self._close_session:`
ClosesSession == session # 0 /\ close_session

\* close()
close ==
    /\ closed' = (IF ClosesSession THEN closed \cup {session} ELSE closed)
    /\ UNCHANGED <<kind, supplied, session, close_session, created, scope, exc_info,
                   env, task>>

\* __aenter__ returns self.
aenter ==
    /\ scope = "out"
    /\ scope' = "in"
    /\ UNCHANGED <<kind, supplied, session, close_session, created, closed, exc_info,
                   env, task>>

\* aexit releasing the session only when the body did not raise.
aexit_OnlyOnSuccess(e) ==
    /\ scope = "in"
    /\ scope' = "left"
    /\ exc_info' = e
    /\ closed' = (IF ClosesSession /\ e = "None" THEN closed \cup {session} ELSE closed)
    /\ UNCHANGED <<kind, supplied, session, close_session, created, env, task>>

\* __aexit__(*_exc_info) awaits close(), whatever it was handed.
aexit(e) ==
    /\ scope = "in"
    /\ scope' = "left"
    /\ exc_info' = e
    /\ closed' = (IF ClosesSession THEN closed \cup {session} ELSE closed)
    /\ UNCHANGED <<kind, supplied, session, close_session, created, env, task>>

-----------------------------------------------------------------------------
(* Specifications *)

InitClient ==
    /\ kind \in {"device", "cloud"}
    /\ supplied \in BOOLEAN
    /\ session = (IF supplied THEN CallerSession ELSE 0)
    /\ close_session = FALSE
    /\ created = 0
    /\ closed = {}
    /\ scope = "out"
    /\ exc_info = "unset"

\* One caller task, every transport outcome.
Init ==
    /\ InitClient
    /\ env = AllOutcomes
    /\ task = [t \in {"t1"} |-> Idle]

\* Two caller tasks on one client, a few transport outcomes.
InitConc ==
    /\ InitClient
    /\ env = FewOutcomes
    /\ task = [t \in {"t1", "t2"} |-> Idle]

\* One caller task of the device client, a device with notifications.
InitNotif ==
    /\ InitClient
    /\ kind = "device"
    /\ env = NotifOutcomes
    /\ task = [t \in {"t1"} |-> Idle]

\* A caller of the model classes; no client is involved.
InitModels ==
    /\ InitClient
    /\ kind = "device"
    /\ ~supplied
    /\ env = {}
    /\ task = [t \in {"t1"} |-> Idle]

\* One caller task of the device client, a device that may lack the apps API.
InitApps ==
    /\ InitClient
    /\ kind = "device"
    /\ env = AppOutcomes
    /\ task = [t \in {"t1"} |-> Idle]

\* Two caller tasks of the device client, a device that reports its mode.
InitDevice ==
    /\ InitClient
    /\ kind = "device"
    /\ env = DeviceOutcomes
    /\ task = [t \in {"t1", "t2"} |-> Idle]

\* One caller task that may cancel its call, a few transport outcomes.
InitCancel ==
    /\ InitClient
    /\ env = FewOutcomes
    /\ task = [t \in {"t1"} |-> Idle]

Next ==
    \/ \E t \in Tasks, m \in RawMethods : _request(t, m)
    \/ \E t \in Tasks, out \in AllOutcomes : Respond(t, out)
    \/ \E t \in Tasks : Retry(t)
    \/ \E t \in Tasks, kw \in KwargsOver(CallerParams("display")) : display(t, kw)
    \/ \E t \in Tasks, kw \in KwargsOver(CallerParams("audio")) : audio(t, kw)
    \/ \E t \in Tasks, kw \in KwargsOver(CallerParams("bluetooth")) : bluetooth(t, kw)
    \/ close

NextConc ==
    \/ \E t \in Tasks, m \in RawMethods : _request(t, m)
    \/ \E t \in Tasks, out \in AllOutcomes : Respond(t, out)
    \/ \E t \in Tasks : Retry(t)
    \/ close
    \/ aenter
    \/ \E e \in {"None", "raised"} : aexit(e)

NextNotif ==
    \/ \E t \in Tasks : dismiss_all_notifications(t)
    \/ \E t \in Tasks : dismiss_current_notification(t)
    \/ \E t \in Tasks : notification_current(t)
    \/ \E t \in Tasks, kw \in {<<>>, [mode |-> "manual"]} : mode(t, kw)
    \/ \E t \in Tasks, n \in NotifyInputs : notify(t, n)
    \/ \E t \in Tasks, out \in NotifOutcomes : DeviceResponds(t, out)
    \/ \E t \in Tasks : Retry(t)

NextModels ==
    \/ \E t \in Tasks, c \in {None, Some("alarms"), Some("notifications")},
          s \in AlarmSound \cup NotificationSound : Sound(t, c, s)
    \/ \E t \in Tasks, o \in ModelObjects : Serialize(t, o)
    \/ \E t \in Tasks, o \in ModelObjects, how \in {"to_dict", "dict"} :
            Deserialize(t, o.cls, Wire(o, how))
    \/ \E t \in Tasks, d \in WireFrames : Deserialize(t, "Model", ModelDocOf(d))

NextApps ==
    \/ \E t \in Tasks : app_next(t)
    \/ \E t \in Tasks : app_previous(t)
    \/ \E t \in Tasks : apps(t)
    \/ \E t \in Tasks, p \in Packages : activate_widget(t, p, "w1")
    \/ \E t \in Tasks, p \in Packages, b \in BOOLEAN : do_action(t, p, "w1", "act", b)
    \/ \E t \in Tasks, out \in AppOutcomes : Respond(t, out)
    \/ \E t \in Tasks : Retry(t)

NextDevice ==
    \/ \E t \in Tasks : device(t)
    \/ \E t \in Tasks, kw \in {<<>>} \cup { [mode |-> m] : m \in DeviceMode } : mode(t, kw)
    \/ \E t \in Tasks, out \in DeviceOutcomes : DeviceResponds(t, out)
    \/ \E t \in Tasks : Retry(t)

NextCancel ==
    \/ \E t \in Tasks, m \in RawMethods : _request(t, m)
    \/ \E t \in Tasks, out \in FewOutcomes : Respond(t, out)
    \/ \E t \in Tasks : Retry(t)
    \/ \E t \in Tasks : Cancel(t)

Spec == Init /\ [][Next]_vars

SpecCancel == InitCancel /\ [][NextCancel]_vars

SpecDevice == InitDevice /\ [][NextDevice]_vars

SpecApps == InitApps /\ [][NextApps]_vars

SpecModels == InitModels /\ [][NextModels]_vars

SpecNotif == InitNotif /\ [][NextNotif]_vars

SpecConc == InitConc /\ [][NextConc]_vars

-----------------------------------------------------------------------------
(* Vocabulary of the properties *)

Done(t) == task[t].pc = "done"

Log(t) == task[t].log

\* The attempt ended in a failure at connection level: DNS, connect, the
\* per-attempt timeout, or a connection that broke while the body was read.
FailedAtConnectionLevel(out) ==
    \/ out.kind \in {"gaierror", "ClientConnectorError", "TimeoutError"}
    \/ out.kind = "response" /\ out.status = 200 /\ out.read = "reset"

IsHttpError(out) == out.kind = "response" /\ out.status \notin {200}

IsJsonSuccess(out) ==
    /\ out.kind = "response"
    /\ out.status = 200
    /\ out.json
    /\ out.read = "ok"
    /\ out.text \in {"plain", "wrapped"}

IsNonJsonSuccess(out) ==
    out.kind = "response" /\ out.status = 200 /\ ~out.json /\ out.read = "ok"

EndpointOps == {"display", "audio", "bluetooth"}

-----------------------------------------------------------------------------
(* Properties *)

\* C1: on both clients no call makes a fourth attempt, and a finished call
\* whose attempts all failed at connection level made exactly 3 attempts and
\* raised a connection error, the timeout sub-kind when the attempts timed out.
C1_ThreeAttemptsThenConnectionError ==
    \A t \in Tasks :
        /\ Len(Log(t)) <= 3
        /\ ( /\ Done(t)
             /\ Log(t) # <<>>
             /\ \A i \in 1..Len(Log(t)) : FailedAtConnectionLevel(Log(t)[i].out) )
           => /\ Len(Log(t)) = 3
              /\ task[t].result.kind = "raise"
              /\ task[t].result.err \in
                    {"LaMetricConnectionError", "LaMetricConnectionTimeoutError"}
              /\ IsA(task[t].result.err, "LaMetricError")
              /\ (\A i \in 1..3 : Log(t)[i].out.kind = "TimeoutError")
                    => task[t].result.err = "LaMetricConnectionTimeoutError"

\* C1 witness: a cloud call finished after three timed-out attempts.
C1_Witness ==
    \E t \in Tasks :
        /\ kind = "cloud"
        /\ Done(t)
        /\ Len(Log(t)) = 3
        /\ \A i \in 1..3 : Log(t)[i].out.kind = "TimeoutError"
        /\ task[t].result.err = "LaMetricConnectionTimeoutError"

\* C2: a _request call whose first attempt, or first two attempts, failed at
\* connection level and whose next attempt got a 2xx JSON response returns
\* the parsed body of that response; no error of the failed attempts shows.
C2_RetryThenSuccessReturnsBody ==
    \A t \in Tasks :
        \A n \in 2..3 :
            ( /\ task[t].op = "_request"
              /\ Len(Log(t)) >= n
              /\ \A i \in 1..(n - 1) : FailedAtConnectionLevel(Log(t)[i].out)
              /\ IsJsonSuccess(Log(t)[n].out) )
            => /\ Done(t)
               /\ Len(Log(t)) = n
               /\ task[t].result = Return(JsonOf(Log(t)[n].out.text))

\* C2 witness: a device call returned on its third attempt after a DNS
\* failure and a timeout.
C2_Witness ==
    \E t \in Tasks :
        /\ kind = "device"
        /\ task[t].op = "_request"
        /\ Done(t)
        /\ Len(Log(t)) = 3
        /\ Log(t)[1].out.kind = "gaierror"
        /\ Log(t)[2].out.kind = "TimeoutError"
        /\ IsJsonSuccess(Log(t)[3].out)
        /\ task[t].result.kind = "return"

\* C3: on both clients an attempt that received an HTTP error response is
\* never retried: it ends the call and no attempt follows it, so a call
\* whose first attempt received one made exactly one attempt.
C3_HttpErrorsNeverRetried ==
    \A t \in Tasks :
        \A i \in 1..Len(Log(t)) :
            IsHttpError(Log(t)[i].out) => Done(t) /\ i = Len(Log(t))

\* C4: on the device client a call that received status 401 or 403 raises
\* LaMetricAuthenticationError, with either body.
C4_AuthStatusRaisesAuthenticationError ==
    \A t \in Tasks :
        \A i \in 1..Len(Log(t)) :
            ( /\ kind = "device"
              /\ Log(t)[i].out.kind = "response"
              /\ Log(t)[i].out.status \in {401, 403} )
            => /\ Done(t)
               /\ i = Len(Log(t))
               /\ task[t].result.kind = "raise"
               /\ task[t].result.err = "LaMetricAuthenticationError"
               /\ ~IsA(task[t].result.err, "LaMetricConnectionError")

\* C4 witness: a device call got 403 with a body that is no JSON on its
\* second attempt and raised the authentication error.
C4_Witness ==
    \E t \in Tasks :
        /\ kind = "device"
        /\ Done(t)
        /\ Len(Log(t)) = 2
        /\ Log(t)[1].out.kind = "ClientConnectorError"
        /\ Log(t)[2].out = Response(403, FALSE, "garbage", "unread")
        /\ task[t].result.err = "LaMetricAuthenticationError"

\* C5: on the device client a call that received a non-2xx status other
\* than 401 and 403 raises a plain LaMetricError that carries the response
\* body.
C5_GenericErrorCarriesBody ==
    \A t \in Tasks :
        ( /\ kind = "device"
          /\ Done(t)
          /\ Log(t) # <<>>
          /\ IsHttpError(Last(Log(t)).out)
          /\ Last(Log(t)).out.status \notin {401, 403} )
        => /\ task[t].result.kind = "raise"
           /\ task[t].result.err = "LaMetricError"
           /\ task[t].result.message = Last(Log(t)).out.text

\* C6: on both clients an attempt that received a 2xx response whose content
\* type is not JSON ends the call: no attempt follows it, and the call
\* raises a plain LaMetricError carrying the status and the body text.
C6_NonJsonRaisesGenericError ==
    \A t \in Tasks :
        \A i \in 1..Len(Log(t)) :
            IsNonJsonSuccess(Log(t)[i].out)
            => /\ Done(t)
               /\ i = Len(Log(t))
               /\ task[t].result =
                    Raise("LaMetricError", Log(t)[i].out.status, Log(t)[i].out.text)
               /\ ~IsA(task[t].result.err, "LaMetricConnectionError")

\* C6 witness: a cloud call got a 2xx non-JSON response on its only attempt
\* and raised the error carrying the text.
C6_Witness ==
    \E t \in Tasks :
        /\ kind = "cloud"
        /\ Done(t)
        /\ Len(Log(t)) = 1
        /\ Log(t)[1].out = Response(200, FALSE, "garbage", "ok")
        /\ task[t].result = Raise("LaMetricError", 200, "garbage")

\* C7: the client closes only a session it created: the caller's session is
\* never closed, every closed session was made by the client, a session once
\* set is never replaced, and no step of a request closes anything.
C7_ClosesOnlyOwnSession ==
    /\ [](/\ CallerSession \notin closed
          /\ supplied => closed = {}
          /\ \A s \in closed : s >= 2 /\ s <= created + 1)
    /\ [][ /\ session # 0 => session' = session
           /\ closed' # closed => task' = task ]_vars

\* C7 witness: with a caller-supplied session a request failed, the scope
\* was left (which calls close) and the session is still open.
C7_Witness ==
    /\ supplied
    /\ scope = "left"
    /\ session = CallerSession
    /\ closed = {}
    /\ \E t \in Tasks : Done(t) /\ task[t].result.kind = "raise"

\* C8: a client built without a session has none before its first request
\* and creates at most one, which every attempt of every task uses; a client
\* built with a session creates none and every attempt uses the caller's.
C8_AtMostOneSession ==
    /\ created <= 1
    /\ supplied => created = 0 /\ session = CallerSession
    /\ (~supplied /\ \A t \in Tasks : task[t].calls = 0) => session = 0 /\ created = 0
    /\ \A t \in Tasks :
        \A i \in 1..Len(Log(t)) :
            /\ Log(t)[i].session = session
            /\ Log(t)[i].session = (IF supplied THEN CallerSession ELSE 2)

\* C8 witness: two first requests overlap on a client built without a
\* session, one of them in its second attempt, and there is one session.
C8_Witness ==
    /\ ~supplied
    /\ created = 1
    /\ task["t1"].pc = "flight" /\ task["t1"].calls = 1 /\ Len(Log("t1")) = 1
    /\ task["t2"].pc = "flight" /\ task["t2"].calls = 1 /\ Len(Log("t2")) = 2

\* C9: leaving `async with`, after a body that ended normally or raised,
\* closes the session the client created and leaves a caller's session open.
C9_ScopeExitCloses ==
    [][ (scope = "in" /\ scope' = "left")
        => /\ (~supplied /\ session # 0) => session \in closed'
           /\ supplied => closed' = {} ]_vars

\* C9 witness: the scope was left by an exception and the session the client
\* had created is closed.
C9_Witness ==
    /\ scope = "left"
    /\ exc_info = "raised"
    /\ ~supplied
    /\ session = 2
    /\ session \in closed

\* The body the claim expects for a setter call: the supplied fields and no
\* others, screensaver_enabled nested as screensaver.enabled.
ExpectedBody(kwargs) ==
    [k \in { IF p = "screensaver_enabled" THEN "screensaver" ELSE p : p \in DOMAIN kwargs }
        |-> IF k = "screensaver"
            THEN [enabled |-> kwargs["screensaver_enabled"]]
            ELSE kwargs[k]]

\* C10: a finished display/audio/bluetooth call without parameters sent GET
\* requests only; one with any parameter (display: brightness,
\* brightness_mode, screensaver_enabled, on) sent PUT requests whose body is
\* exactly the supplied fields; a call answered at once by a 2xx JSON
\* document made one request, and a setter returned the state found at
\* success.data.
C10_GetterSetter ==
    \A t \in Tasks :
        (Done(t) /\ task[t].op \in EndpointOps)
        => /\ Log(t) # <<>>
           /\ \A i \in 1..Len(Log(t)) :
                IF task[t].kwargs = <<>>
                THEN Log(t)[i].method = "GET" /\ Log(t)[i].body = <<>>
                ELSE Log(t)[i].method = "PUT"
                     /\ Log(t)[i].body = <<ExpectedBody(task[t].kwargs)>>
           /\ (task[t].kwargs # <<>>
               /\ Log(t)[1].out = Response(200, TRUE, "wrapped", "ok"))
              => /\ Len(Log(t)) = 1
                 /\ task[t].result.kind = "return"
                 /\ task[t].result.value.v = JsonOf("wrapped").success.data.v

-----------------------------------------------------------------------------
(* Properties of the notification methods *)

\* Every attempt a method has made so far, over all its _request calls.
Attempts(t) == task[t].past \o task[t].log

IsOk(out) == out.kind = "response" /\ out.status = 200 /\ out.read = "ok"

\* The JSON list the queue request of dismiss_all_notifications was answered
\* with, empty while there is no answer.
FetchedQueue(t) ==
    LET a == Attempts(t)
        g == { i \in 1..Len(a) : a[i].method = "GET" /\ IsOk(a[i].out) }
    IN  IF g = {} THEN <<>> ELSE JsonOf(a[CHOOSE i \in g : TRUE].out.text).list

\* The place in the fetched queue of the entry a DELETE uri names, 0 if none.
PosOf(t, uri) ==
    LET q == FetchedQueue(t)
        at == { k \in 1..Len(q) : DeleteUri(q[k].id[1]) = uri }
    IN  IF at = {} THEN 0 ELSE CHOOSE k \in at : TRUE

C12_OneDeletePerEntry ==
    \A t \in Tasks :
        ( /\ task[t].op = "dismiss_all_notifications"
          /\ Done(t)
          /\ \A i \in 1..Len(Attempts(t)) : IsOk(Attempts(t)[i].out) )
        => LET a == Attempts(t)
               q == FetchedQueue(t)
               deletes == { i \in 1..Len(a) : a[i].method = "DELETE" }
           IN  /\ Cardinality(deletes) = Len(q)
               /\ \A k \in 1..Len(q) :
                    Cardinality({ i \in deletes : a[i].uri = DeleteUri(q[k].id[1]) }) = 1

\* The keys of a wire document under which a value is written, null or not.
Keys(doc) == DOMAIN doc

\* No key of the wire form of a notification holds null, at any depth.
NoNulls(doc) ==
    /\ \A k \in Keys(doc) : ~IsNone(doc[k])
    /\ LET model == doc.model[1]
       IN  /\ \A k \in Keys(model) : ~IsNone(model[k])
           /\ "sound" \in Keys(model) =>
                \A k \in Keys(model.sound[1]) : ~IsNone(model.sound[1][k])
           /\ \A i \in 1..Len(model.frames[1]) :
                LET frame == model.frames[1][i]
                IN  /\ \A k \in Keys(frame) : ~IsNone(frame[k])
                    /\ "goalData" \in Keys(frame) =>
                         \A k \in Keys(frame.goalData[1]) : ~IsNone(frame.goalData[1][k])

\* C13: every attempt of notify is a POST to /api/v2/device/notifications
\* whose body is the wire form of the notification: id, type and life_time are
\* keys exactly when the fields are set, the frames are written under text,
\* goalData and chartData, the sound under id, no semantic name of an aliased
\* field and no null appears; when the first attempt is answered, it is the
\* only one and the method returns the integer at success.id of the answer.
C13_NotifyPostsWireForm ==
    \A t \in Tasks :
        task[t].op = "notify" =>
            LET n == task[t].kwargs.notification
                a == Attempts(t)
            IN  /\ \A i \in 1..Len(a) :
                        /\ a[i].method = "POST"
                        /\ a[i].uri = NotificationsUri
                        /\ Len(a[i].body) = 1
                        /\ LET b == a[i].body[1]
                               model == b.model[1]
                           IN  /\ "id" \in Keys(b) <=> ~IsNone(n.f.notification_id)
                               /\ "type" \in Keys(b) <=> ~IsNone(n.f.notification_type)
                               /\ "life_time" \in Keys(b) <=> ~IsNone(n.f.life_time)
                               /\ Keys(b) \cap {"notification_id", "notification_type"} = {}
                               /\ Keys(model.frames[1][1]) = {"text"}
                               /\ Keys(model.frames[1][2]) = {"goalData", "icon"}
                               /\ Keys(model.frames[1][3]) = {"chartData"}
                               /\ "sound" \in Keys(model) <=> ~IsNone(n.f.model[1].f.sound)
                               /\ "sound" \in Keys(model) =>
                                    Keys(model.sound[1]) = {"category", "id", "repeat"}
                               /\ NoNulls(b)
                               /\ from_dict("Notification", b) = n
                /\ (Done(t) /\ IsOk(a[1].out)) =>
                        /\ Len(a) = 1
                        /\ task[t].result = Return([int |-> JsonOf(a[1].out.text).success.id])

\* C13 witness: notify of a notification with a sound and without life_time
\* has returned the id of the device's answer.
C13_Witness ==
    \E t \in Tasks :
        /\ task[t].op = "notify"
        /\ Done(t)
        /\ IsNone(task[t].kwargs.notification.f.life_time)
        /\ ~IsNone(task[t].kwargs.notification.f.notification_type)
        /\ ~IsNone(task[t].kwargs.notification.f.model[1].f.sound)
        /\ Len(Attempts(t)) = 1
        /\ "life_time" \notin Keys(Attempts(t)[1].body[1])
        /\ task[t].result = Return([int |-> 7])

-----------------------------------------------------------------------------
(* Properties of the model classes *)

\* C14: a Sound built without a category has category alarms exactly when
\* its sound is an AlarmSound and notifications exactly when it is a
\* NotificationSound; the two enumerations share no identifier, so the
\* category is set and is the same with the two tests in the other order.
C14_CategoryFollowsEnumeration ==
    /\ AlarmSound \cap NotificationSound = {}
    /\ \A t \in Tasks :
        (task[t].op = "Sound" /\ IsNone(task[t].kwargs.category)) =>
            LET s == task[t].kwargs.sound
                category == task[t].result.value.f.category
                otherOrder == IF s \in AlarmSound THEN Some("alarms")
                              ELSE IF s \in NotificationSound THEN Some("notifications")
                              ELSE None
            IN  /\ ~IsNone(category)
                /\ category = Some("alarms") <=> s \in AlarmSound
                /\ category = Some("notifications") <=> s \in NotificationSound
                /\ category = otherOrder

\* C14 witness: a Sound built from a notification sound without a category.
C14_Witness ==
    \E t \in Tasks :
        /\ task[t].op = "Sound"
        /\ IsNone(task[t].kwargs.category)
        /\ task[t].kwargs.sound = "wind_short"
        /\ task[t].result.value.f.category = Some("notifications")

\* The frames of a typed notification, and of its wire document.
FramesOf(obj) == obj.f.model[1].f.frames[1]

WireFramesOf(doc) == doc.model[1].frames[1]

\* C15: serializing a notification writes its frames in their order, one
\* document per frame, and deserializing a document gives its frames in the
\* order of the document.
C15_FramesKeepOrder ==
    \A t \in Tasks :
        /\ (task[t].op = "to_dict" /\ task[t].kwargs.obj.cls = "Notification") =>
                LET frames == FramesOf(task[t].kwargs.obj)
                    written == WireFramesOf(task[t].result.value)
                IN  /\ Len(written) = Len(frames)
                    /\ \A i \in 1..Len(frames) : written[i] = to_dict(frames[i])
        /\ ( /\ task[t].op = "from_dict"
             /\ task[t].kwargs.cls = "Notification"
             /\ task[t].result.kind = "return" ) =>
                LET written == WireFramesOf(task[t].kwargs.doc)
                    frames == FramesOf(task[t].result.value)
                IN  /\ Len(frames) = Len(written)
                    /\ \A i \in 1..Len(frames) :
                            frames[i] = from_dict(frames[i].cls, written[i])

\* C15 witness: a notification with a chart frame before a text frame has
\* been serialized.
C15_Witness ==
    \E t \in Tasks :
        /\ task[t].op = "to_dict"
        /\ task[t].kwargs.obj.cls = "Notification"
        /\ FramesOf(task[t].kwargs.obj) = <<ChartFrame, SimpleFrame>>
        /\ Keys(WireFramesOf(task[t].result.value)[1]) = {"chartData"}

\* The aliased fields the data model names: class, semantic name, wire name.
WireNames ==
    { <<"Device", "device_id", "id">>,
      <<"Notification", "notification_id", "id">>,
      <<"Notification", "notification_type", "type">>,
      <<"Goal", "data", "goalData">>,
      <<"Chart", "data", "chartData">>,
      <<"Sound", "sound", "id">> }

\* The document written for obj has each set aliased field under its wire
\* name and none under its semantic name.
WritesWireNames(obj, doc) ==
    \A n \in WireNames :
        n[1] = obj.cls =>
            /\ n[2] \notin Keys(doc)
            /\ ~IsNone(obj.f[n[2]]) => n[3] \in Keys(doc)

\* The document written for obj deserializes to obj.
RoundTrips(obj, doc) ==
    /\ from_dict(obj.cls, doc).cls = obj.cls
    /\ from_dict(obj.cls, doc) = obj

\* The object read from doc has each aliased field filled from its wire name.
ReadsWireNames(obj, doc) ==
    \A n \in WireNames :
        (n[1] = obj.cls /\ n[3] \in Keys(doc)) =>
            IF n[1] = "Goal"
            THEN obj.f[n[2]] = Some(from_dict("GoalData", doc[n[3]][1]))
            ELSE obj.f[n[2]] = doc[n[3]]

\* C16 as stated: for every class with an aliased field, Device among them,
\* serializing writes the wire name and never the semantic name, the written
\* document deserializes to the object, and deserializing fills the semantic
\* field from the wire name.
C16_AliasRoundTripAllModels ==
    \A t \in Tasks :
        /\ (task[t].op = "to_dict" /\ \E n \in WireNames : n[1] = task[t].kwargs.obj.cls) =>
                /\ WritesWireNames(task[t].kwargs.obj, task[t].result.value)
                /\ RoundTrips(task[t].kwargs.obj, task[t].result.value)
        /\ (task[t].op = "from_dict" /\ task[t].result.kind = "return") =>
                ReadsWireNames(task[t].result.value, task[t].kwargs.doc)

\* C16 amended: the same for the classes whose Config sets
\* serialize_by_alias (Chart, Goal, Sound, Notification); Device, which has
\* no Config, is filled from id on deserialization, is written under
\* device_id, and the written document is refused on deserialization.
C16_AliasRoundTripRequestModels ==
    \A t \in Tasks :
        /\ (task[t].op = "to_dict" /\ \E n \in WireNames : n[1] = task[t].kwargs.obj.cls) =>
                IF task[t].kwargs.obj.cls = "Device"
                THEN /\ "id" \notin Keys(task[t].result.value)
                     /\ task[t].result.value.device_id = task[t].kwargs.obj.f.device_id
                     /\ from_dict("Device", task[t].result.value) = MissingField
                ELSE /\ WritesWireNames(task[t].kwargs.obj, task[t].result.value)
                     /\ RoundTrips(task[t].kwargs.obj, task[t].result.value)
        /\ (task[t].op = "from_dict" /\ task[t].result.kind = "return") =>
                ReadsWireNames(task[t].result.value, task[t].kwargs.doc)

\* C16 witness: a queued notification with id 0 and a type has been written
\* under id and type.
C16_Witness ==
    \E t \in Tasks :
        /\ task[t].op = "to_dict"
        /\ task[t].kwargs.obj.cls = "Notification"
        /\ task[t].kwargs.obj.f.notification_id = Some(0)
        /\ task[t].result.value.id = Some(0)
        /\ task[t].result.value.type = Some("external")
        /\ from_dict("Notification", task[t].result.value) = task[t].kwargs.obj

-----------------------------------------------------------------------------
(* Properties of the app methods and of the error kinds *)

IsNotFound(out) == out.kind = "response" /\ out.status = 404

WriteOps == {"app_next", "app_previous", "activate_widget", "do_action"}

\* C17: a write method of the device client whose request is answered 404
\* raises LaMetricUnsupportedError, and the request is not sent again.
C17_NotFoundOnWriteIsUnsupported ==
    \A t \in Tasks :
        \A i \in 1..Len(Log(t)) :
            (task[t].op \in WriteOps /\ IsNotFound(Log(t)[i].out)) =>
                /\ Done(t)
                /\ i = Len(Log(t))
                /\ task[t].result.kind = "raise"
                /\ task[t].result.err = "LaMetricUnsupportedError"

\* C18: a read method that discovers an optional capability returns None
\* when its request is answered 404.
C18_NotFoundOnReadIsNone ==
    \A t \in Tasks :
        ( /\ task[t].op = "apps"
          /\ Done(t)
          /\ Log(t) # <<>>
          /\ IsNotFound(Log(t)[Len(Log(t))].out) )
        => task[t].result = Return(NoneValue)

\* C19: a call of the cloud client that is answered with an error status
\* raises the generic LaMetricError, neither a connection error nor, by the
\* status alone, the authentication error.
C19_CloudErrorStatusIsGenericError ==
    \A t \in Tasks :
        ( /\ kind = "cloud"
          /\ Done(t)
          /\ Log(t) # <<>>
          /\ IsHttpError(Log(t)[Len(Log(t))].out) )
        => /\ task[t].result.kind = "raise"
           /\ task[t].result.err = "LaMetricError"

-----------------------------------------------------------------------------
(* Properties of the time a method takes *)

\* The attempts of a method that are known to have lasted request_timeout
\* or longer: those the timeout cut off and those whose body arrived late.
FullWaits(t) ==
    { i \in 1..Len(Attempts(t)) :
        Attempts(t)[i].out.kind = "TimeoutError" \/ IsLate(Attempts(t)[i].out) }

\* The requests a method has sent, each counted once however often it was
\* attempted.
RequestsOf(t) == { <<Attempts(t)[i].method, Attempts(t)[i].uri>> : i \in 1..Len(Attempts(t)) }

\* The most requests a method sends.
MostRequests(t) ==
    CASE task[t].op = "dismiss_all_notifications"    -> 1 + Len(FetchedQueue(t))
      [] task[t].op = "dismiss_current_notification" -> 2
      [] OTHER                                       -> 1

\* C20 as stated: no method waits longer than 3 times request_timeout,
\* backoff delays aside, and an attempt whose body arrives after
\* request_timeout is cut off by the timeout.
C20_MethodBoundedByThreeTimeouts ==
    \A t \in Tasks :
        /\ Cardinality(FullWaits(t)) <= MaxTries
        /\ \A i \in 1..Len(Attempts(t)) :
                IsLate(Attempts(t)[i].out) =>
                    /\ Attempt(Attempts(t)[i].out).kind = "raise"
                    /\ Attempt(Attempts(t)[i].out).err = "LaMetricConnectionTimeoutError"

\* C20 amended: every request of a method is attempted at most 3 times, so
\* a method waits at most 3 times request_timeout for each request it sends:
\* one for most methods, up to two for dismiss_current_notification, up to
\* N + 1 for dismiss_all_notifications on a queue of N entries; a body that
\* arrives after request_timeout is not cut off but read and returned.
C20_RequestBoundedByThreeTimeouts ==
    \A t \in Tasks :
        /\ Len(Log(t)) <= MaxTries
        /\ \A r \in RequestsOf(t) :
                Cardinality({ i \in 1..Len(Attempts(t)) :
                    <<Attempts(t)[i].method, Attempts(t)[i].uri>> = r }) <= MaxTries
        /\ Cardinality(RequestsOf(t)) <= MostRequests(t)
        /\ Cardinality(FullWaits(t)) <= MaxTries * MostRequests(t)
        /\ \A i \in 1..Len(Attempts(t)) :
                IsLate(Attempts(t)[i].out) => Attempt(Attempts(t)[i].out).kind = "return"

\* C20 witness: dismiss_current_notification has finished after its GET and
\* its DELETE each timed out twice before they were answered.
C20_Witness ==
    \E t \in Tasks :
        /\ task[t].op = "dismiss_current_notification"
        /\ Done(t)
        /\ task[t].result = Return(NoneValue)
        /\ Len(Attempts(t)) = 6
        /\ Cardinality(FullWaits(t)) > MaxTries

-----------------------------------------------------------------------------
(* Properties of how failures reach the caller *)

\* The call's last attempt was answered by the server, with any status and
\* any body.
Answered(t) == Log(t) # <<>> /\ Last(Log(t)).out.kind = "response"

\* C21: a call whose request was answered reports every failure as an error
\* of the taxonomy: an error status, a body that is no JSON by its content
\* type or that does not parse makes the call raise, and whatever the call
\* raises, the errors of a body lacking the success payload among them, is a
\* LaMetricError or one of its sub-kinds.
C21_EveryFailureIsTyped ==
    \A t \in Tasks :
        (Done(t) /\ Answered(t)) =>
            LET out == Last(Log(t)).out
            IN  /\ (IsHttpError(out) \/ ~out.json \/ ~ParsesAsJson(out.text))
                        => task[t].result.kind = "raise"
                /\ task[t].result.kind = "raise"
                        => IsA(task[t].result.err, "LaMetricError")

-----------------------------------------------------------------------------
(* Properties of the device resource *)

\* C22: every attempt of mode goes to /api/v2/device; without an argument
\* each is a GET without a body, and the call returns the mode of the device
\* document it was answered with; with mode=m, for each of the four
\* DeviceMode values, each is a PUT of {mode: m} and never a GET, and the
\* call returns the mode at success.data of the answer; a call answered at
\* its first attempt made that one request only.
C22_ModeIsGetSetPair ==
    \A t \in Tasks :
        task[t].op = "mode" =>
            LET a == Attempts(t)
            IN  /\ \A i \in 1..Len(a) :
                        /\ a[i].uri = DeviceUri
                        /\ IF task[t].kwargs = <<>>
                           THEN a[i].method = "GET" /\ a[i].body = <<>>
                           ELSE /\ task[t].kwargs.mode \in DeviceMode
                                /\ a[i].method = "PUT"
                                /\ a[i].body = <<[mode |-> task[t].kwargs.mode]>>
                /\ (Done(t) /\ IsOk(a[1].out)) => Len(a) = 1
                /\ (Done(t) /\ IsOk(Last(a).out)) =>
                        IF task[t].kwargs = <<>>
                        THEN task[t].result =
                                Return([mode |-> JsonOf(Last(a).out.text).mode[1]])
                        ELSE task[t].result =
                                Return([mode |-> JsonOf(Last(a).out.text).success.data.mode])

\* C22 witness: mode(mode=kiosk) sent one PUT, was answered with mode
\* schedule and returned schedule; and mode() returned manual after one GET.
C22_Witness ==
    /\ task["t1"].op = "mode"
    /\ Done("t1")
    /\ task["t1"].kwargs = [mode |-> "kiosk"]
    /\ Len(Attempts("t1")) = 1
    /\ Attempts("t1")[1].method = "PUT"
    /\ Attempts("t1")[1].out.text = ModeSetText("schedule")
    /\ task["t1"].result = Return([mode |-> "schedule"])
    /\ task["t2"].op = "mode"
    /\ Done("t2")
    /\ task["t2"].kwargs = <<>>
    /\ Len(Attempts("t2")) = 1
    /\ Attempts("t2")[1].method = "GET"
    /\ task["t2"].result = Return([mode |-> "manual"])

-----------------------------------------------------------------------------
(* Properties of the frame variants and of an explicit category *)

\* The wire frames of a document of class cls, and the frames read from it.
DocFrames(cls, doc) ==
    IF cls = "Notification" THEN doc.model[1].frames[1] ELSE doc.frames[1]

ReadFrames(obj) ==
    IF obj.cls = "Notification" THEN obj.f.model[1].f.frames[1] ELSE obj.f.frames[1]

\* C24: in a model or notification that was deserialized, a wire frame that
\* holds chartData is a Chart, whatever else it holds; one without chartData
\* that holds goalData is a Goal; one with neither that holds text is a
\* Simple; so a Chart is read only from a frame with chartData and a Goal only
\* from one with goalData, never from a frame with text alone.
C24_FrameVariantByOrder ==
    \A t \in Tasks :
        ( /\ task[t].op = "from_dict"
          /\ task[t].kwargs.cls \in {"Model", "Notification"}
          /\ task[t].result.kind = "return" ) =>
            LET wire == DocFrames(task[t].kwargs.cls, task[t].kwargs.doc)
                read == ReadFrames(task[t].result.value)
            IN  /\ Len(read) = Len(wire)
                /\ \A i \in 1..Len(wire) :
                        LET keys == DOMAIN wire[i]
                        IN  /\ "chartData" \in keys => read[i].cls = "Chart"
                            /\ ("chartData" \notin keys /\ "goalData" \in keys)
                                    => read[i].cls = "Goal"
                            /\ (keys \cap {"chartData", "goalData"} = {} /\ "text" \in keys)
                                    => read[i].cls = "Simple"
                            /\ read[i].cls = "Chart" => "chartData" \in keys
                            /\ read[i].cls = "Goal" => "goalData" \in keys
                            /\ read[i].cls \in {"Chart", "Goal", "Simple"}

\* C24 witness: a frame that holds chartData, goalData and text was read as
\* a Chart.
C24_Witness ==
    \E t \in Tasks :
        /\ task[t].op = "from_dict"
        /\ task[t].kwargs.cls = "Model"
        /\ DOMAIN task[t].kwargs.doc.frames[1][1] = {"chartData", "goalData", "text"}
        /\ task[t].result.kind = "return"
        /\ task[t].result.value.f.frames[1][1] = ChartFrame

\* C25: a Sound built with a category has exactly that category, for each of
\* the two categories and every sound identifier, also when the identifier
\* belongs to the other enumeration; its sound and repeat are as given; and a
\* category that differs from the enumeration of the identifier is found only
\* on a Sound whose category the caller supplied.
C25_ExplicitCategoryKept ==
    \A t \in Tasks :
        task[t].op = "Sound" =>
            LET given == task[t].kwargs.category
                s     == task[t].kwargs.sound
                built == task[t].result.value
                own   == IF s \in AlarmSound THEN Some("alarms") ELSE Some("notifications")
            IN  /\ task[t].result.kind = "return"
                /\ built.f.sound = Some(s)
                /\ built.f.repeat = Some(1)
                /\ ~IsNone(given) => built.f.category = given
                /\ built.f.category # own => given = built.f.category

\* C25 witness: a Sound built from a notification sound with category alarms
\* has category alarms.
C25_Witness ==
    \E t \in Tasks :
        /\ task[t].op = "Sound"
        /\ task[t].kwargs.category = Some("alarms")
        /\ task[t].kwargs.sound \in NotificationSound
        /\ task[t].result.value.f.category = Some("alarms")

-----------------------------------------------------------------------------
(* Properties of the current notification *)

\* C26: notification_current answered with an empty document returns None;
\* dismiss_current_notification sends its GET of the current notification
\* first and a DELETE only after that GET was answered; when every request
\* succeeded it sent no DELETE if the answer was empty and exactly one
\* DELETE, for the id of the answer, if the answer was a notification,
\* whatever its id.
C26_CurrentThenOneDelete ==
    \A t \in Tasks :
        /\ ( /\ task[t].op = "notification_current"
             /\ Done(t)
             /\ IsOk(Last(Log(t)).out)
             /\ Last(Log(t)).out.text = "empty" )
           => task[t].result = Return(NoneValue)
        /\ task[t].op = "dismiss_current_notification" =>
            LET a == Attempts(t)
                deletes == { i \in 1..Len(a) : a[i].method = "DELETE" }
            IN  /\ a[1].method = "GET" /\ a[1].uri = CurrentUri
                /\ \A i \in deletes :
                        \E k \in 1..(i - 1) : a[k].method = "GET" /\ IsOk(a[k].out)
                /\ (Done(t) /\ \A i \in 1..Len(a) : IsOk(a[i].out)) =>
                        IF a[1].out.text = "empty"
                        THEN deletes = {}
                        ELSE /\ Cardinality(deletes) = 1
                             /\ \A i \in deletes :
                                    a[i].uri = DeleteUri(JsonOf(a[1].out.text).id[1])

-----------------------------------------------------------------------------
(* Properties of cancellation and of retried requests *)

IsCancelled(rec) == rec.result.kind = "raise" /\ rec.result.err = "CancelledError"

\* C27: on both clients an attempt the caller cancelled in flight is the
\* last of its call, which ends at once with CancelledError: not with a
\* connection-timeout error, and without a retry; a call cancelled while it
\* waited in backoff ends the same way without starting an attempt; a
\* cancelled call makes no further attempt; and an attempt that ran into the
\* per-attempt timeout does not cancel the call: it is retried, or after the
\* third attempt raised as LaMetricConnectionTimeoutError.
C27_CancellationEndsTheCall ==
    /\ [](\A t \in Tasks :
            /\ \A i \in 1..Len(Log(t)) :
                    Log(t)[i].out = Cancelled =>
                        /\ i = Len(Log(t))
                        /\ Done(t)
                        /\ IsCancelled(task[t])
            /\ IsCancelled(task[t]) =>
                    /\ Done(t)
                    /\ ~IsA(task[t].result.err, "LaMetricError")
                    /\ Last(Log(t)).out # Pending)
    /\ [][ \A t \in Tasks :
            /\ (IsCancelled(task[t]) /\ task'[t].calls = task[t].calls)
                    => task'[t] = task[t]
            /\ (task[t].pc = "backoff" /\ IsCancelled(task'[t]))
                    => task'[t].log = task[t].log
            /\ ( /\ task[t].pc = "flight"
                 /\ task'[t].log # task[t].log
                 /\ Len(task'[t].log) = Len(task[t].log)
                 /\ Last(task'[t].log).out.kind = "TimeoutError" )
                    => /\ ~IsCancelled(task'[t])
                       /\ IF Len(task[t].log) < MaxTries
                          THEN task'[t].pc = "backoff"
                          ELSE /\ task'[t].pc = "done"
                               /\ task'[t].result.err = "LaMetricConnectionTimeoutError"
         ]_vars

\* C27 witness: a cloud call was cancelled while it waited in backoff after
\* its second attempt had timed out: two attempts, none cancelled in flight.
C27_Witness ==
    \E t \in Tasks :
        /\ kind = "cloud"
        /\ Done(t)
        /\ IsCancelled(task[t])
        /\ Len(Log(t)) = 2
        /\ Log(t)[2].out.kind = "TimeoutError"

\* C28: on both clients a call whose three attempts all failed at connection
\* level raises the error of its third attempt, whatever the first two were:
\* LaMetricConnectionTimeoutError exactly when the third attempt timed out,
\* and the plain LaMetricConnectionError otherwise.
C28_LastAttemptDecidesError ==
    \A t \in Tasks :
        ( /\ Done(t)
          /\ Len(Log(t)) = MaxTries
          /\ \A i \in 1..MaxTries : FailedAtConnectionLevel(Log(t)[i].out) )
        => /\ task[t].result.kind = "raise"
           /\ task[t].result = Attempt(Log(t)[MaxTries].out)
           /\ task[t].result.err = "LaMetricConnectionTimeoutError"
                <=> Log(t)[MaxTries].out.kind = "TimeoutError"
           /\ task[t].result.err # "LaMetricConnectionTimeoutError"
                => task[t].result.err = "LaMetricConnectionError"

\* C28 witness: a device call whose attempts timed out twice and then failed
\* to resolve the host raised the plain connection error; the message is the
\* one of the third attempt.
C28_Witness ==
    \E t \in Tasks :
        /\ kind = "device"
        /\ Done(t)
        /\ Len(Log(t)) = 3
        /\ Log(t)[1].out.kind = "TimeoutError"
        /\ Log(t)[2].out.kind = "TimeoutError"
        /\ Log(t)[3].out.kind = "gaierror"
        /\ task[t].result = Raise("LaMetricConnectionError", 0, MsgComm)

\* C29: every attempt of one _request call carries the method, the URL and
\* the body of its first attempt, for GET, POST and DELETE alike, and a call
\* has at most 3 attempts, each but the last a failure at connection level; so
\* notify, which makes one _request call, sends its POST with the same
\* notification up to 3 times and never a fourth.
C29_RetriesResendTheRequest ==
    \A t \in Tasks :
        /\ Len(Log(t)) <= MaxTries
        /\ \A i \in 1..Len(Log(t)) :
                /\ Log(t)[i].method = Log(t)[1].method
                /\ Log(t)[i].uri = Log(t)[1].uri
                /\ Log(t)[i].body = Log(t)[1].body
                /\ i < Len(Log(t)) => FailedAtConnectionLevel(Log(t)[i].out)
        /\ task[t].op = "notify" =>
                /\ Len(Attempts(t)) <= MaxTries
                /\ \A i \in 1..Len(Attempts(t)) :
                        /\ Attempts(t)[i].method = "POST"
                        /\ Attempts(t)[i].body =
                                <<Wire(task[t].kwargs.notification, "dict")>>

\* C29 witness: one notify call sent its POST three times, each attempt
\* timing out, and raised the timeout error.
C29_Witness ==
    \E t \in Tasks :
        /\ task[t].op = "notify"
        /\ Done(t)
        /\ Len(Log(t)) = 3
        /\ \A i \in 1..3 :
                /\ Log(t)[i].method = "POST"
                /\ Log(t)[i].out.kind = "TimeoutError"
                /\ Log(t)[i].body # <<>>
        /\ task[t].result.err = "LaMetricConnectionTimeoutError"

-----------------------------------------------------------------------------
(* Properties of a failed dismissal *)

\* The _request call that attempt i of a method belongs to has raised with
\* that attempt: the attempt failed and was not followed by a retry.
RaisedAt(t, i) ==
    LET a == Attempts(t)
    IN  /\ a[i].out # Pending
        /\ Attempt(a[i].out).kind = "raise"
        /\ (i = Len(a) /\ Done(t)) \/ (i < Len(a) /\ a[i + 1].uri # a[i].uri)

\* C30: in dismiss_all_notifications a request that raised, after its
\* retries, is the last request of the method: the method ends with that
\* error, and no DELETE follows, so the entries that stand before the failed
\* one in the fetched queue get none; the DELETEs sent before it were
\* answered and are not followed by any request that would undo them; and a
\* method whose queue request raised has sent no DELETE.
C30_FailedDeleteStopsTheLoop ==
    \A t \in Tasks :
        task[t].op = "dismiss_all_notifications" =>
            LET a == Attempts(t)
            IN  /\ \A i \in 1..Len(a) :
                        RaisedAt(t, i) =>
                            /\ i = Len(a)
                            /\ Done(t)
                            /\ task[t].result = Attempt(a[i].out)
                            /\ a[i].method = "GET" =>
                                    \A j \in 1..Len(a) : a[j].method = "GET"
                            /\ a[i].method = "DELETE" =>
                                    \A j \in 1..(i - 1) :
                                        a[j].method = "DELETE" =>
                                            /\ PosOf(t, a[j].uri) >= PosOf(t, a[i].uri)
                                            /\ a[j + 1].uri # a[j].uri => IsOk(a[j].out)
                /\ (Done(t) /\ task[t].result.kind = "raise") => RaisedAt(t, Len(a))
                /\ \A i \in 1..Len(a) : a[i].method \in {"GET", "DELETE"}

\* C30 witness: on the queue [1, 2] the DELETE of 2 succeeded, the DELETE of
\* 1 was answered 500, and the method raised without a further request.
C30_Witness ==
    \E t \in Tasks :
        /\ task[t].op = "dismiss_all_notifications"
        /\ Done(t)
        /\ Len(Attempts(t)) = 3
        /\ Attempts(t)[1].out.text = QueueText(<<1, 2>>)
        /\ Attempts(t)[2].uri = DeleteUri(2)
        /\ IsOk(Attempts(t)[2].out)
        /\ Attempts(t)[3].uri = DeleteUri(1)
        /\ Attempts(t)[3].out.status = 500
        /\ task[t].result = Raise("LaMetricError", 0, MsgError)

====
